---------------------------- MODULE Spec2Model ----------------------------
(***************************************************************************)
(* Model of the STM32F4 sample acquisition pipeline:                       *)
(*   - the ring buffer            (buffer.c)                               *)
(*   - the error / fault tracker  (utils/error.c)                          *)
(*   - the interrupt-to-foreground handoff (adc.c ISR, adc_get_reading,    *)
(*     main loop of main.c)                                                *)
(* Each component has its own specification over the shared variable list; *)
(* the variables of the other components stay at their initial values.     *)
(***************************************************************************)
EXTENDS Integers, Sequences, FiniteSets, TLC

(***************************************************************************)
(* Bounds of the model                                                     *)
(***************************************************************************)
\* largest ring buffer capacity passed to ring_buffer_init
MaxSize == 3
\* sample values written to the ring buffer are 1..MaxData (0 = never written)
MaxData == 2
\* ring_buffer_write calls between two init/clear calls
MaxWrites == 4

\* error_report calls between two error_init/error_clear calls
MaxReports == 12

\* completed DMA transfers in one run
MaxTransfers == 10

\* reports made with the severities of SeverityValues
MaxSevReports == 4

\* completed DMA transfers in the run that watches the LED
MaxLedTransfers == 20

\* uint16_t arithmetic
UINT16 == 65536

\* utils/error.c: #define MAX_ERROR_HISTORY 10
MAX_ERROR_HISTORY == 10

VARIABLES
    \* ---- ring buffer (ring_buffer_t and its backing array) ----
    rb,          \* [head, tail, size, count, full]
    storage,     \* the uint16_t array rb->buffer points to
    rb_out,      \* the caller's variable that the data pointer of read/peek names
    rb_ret,      \* return value of the last ring buffer call
    rb_op,       \* name of the last ring buffer call
    \* ---- ring buffer, observers (not program state) ----
    g_fifo,      \* contents an overwrite-oldest FIFO holds after the same calls
    g_expect,    \* <<value>> the FIFO hands out at the last read, << >> if it was empty
    g_writes,    \* writes since the last init/clear
    g_reads,     \* successful reads since the last write
    g_phase,     \* "writing" | "reading" | "mixed": shape of the calls since init
    g_off,       \* the offset argument of the call, if the last call was a peek (else 0)
    g_stamp,     \* per slot: number of the write (since init/clear) that filled it, 0 = none
    g_peek,      \* <<k, v, o>>: a peek at offset o promised that the (k+1)-th read from now yields v
    g_peekRes,   \* "none" | "kept0" | "kept" | "broken": the last promise reads settled (kept0: offset 0)
    \* ---- error tracker (statics of utils/error.c) ----
    error_history,        \* error_t error_history[MAX_ERROR_HISTORY]
    error_count,          \* uint16_t
    error_index,          \* uint16_t
    critical_error_flag,  \* bool
    err_op,               \* name of the last error tracker call
    \* ---- error tracker, observers (not program state) ----
    e_n,         \* error_report calls since the last error_init/error_clear
    e_recent,    \* the last min(e_n, MAX_ERROR_HISTORY) reported records, oldest first
    e_critSeen,  \* a report with severity >= 3 was made since the last init/clear
    e_before,    \* [n, crit, index]: e_n, critical flag and index before the last call
    \* ---- acquisition handoff (adc.c, main.c, DMA2 stream 0) ----
    mem,                      \* the two candidate sample slots: adc_raw_value, adc_buffer[0]
    adc_status,               \* adc.c static
    adc_conversion_complete,  \* adc.c static: the handoff flag
    TCIF0,                    \* DMA2->LISR transfer-complete indicator of stream 0
    isr_pc,                   \* position of DMA2_Stream0_IRQHandler ("none": not running)
    fg_kind,                  \* what the foreground runs: "idle" | "gr" | "ml"
    fg_pos,                   \* position in GrSteps / MlSteps
    fg_op,                    \* the foreground call entered last
    fg_ret,                   \* its return value ("pending" while it runs)
    reading,                  \* the caller's adc_reading_t
    ml_raw,                   \* main loop: the argument value read from adc_buffer[0]
    sample_count,             \* main.c static
    led_toggle_count,         \* main.c static
    led,                      \* GPIOC->ODR bit 13
    uart_last,                \* arguments of the last line handed to uart_send_string
    \* ---- acquisition handoff, observers (not program state) ----
    h_transfers,   \* completed DMA transfers
    h_last,        \* value of the most recent transfer
    h_sets,        \* times the handler set adc_conversion_complete
    h_oks,         \* adc_get_reading calls that returned ADC_STATUS_OK
    h_setSinceOk,  \* the handler set the flag since the last OK return
    h_okFresh,     \* h_setSinceOk as it was at the last OK return
    h_copied,      \* the running consumer has read the sample slot
    h_atCopy,      \* h_last at the moment adc_get_reading copied the sample
    h_clearOrder,  \* per consumer: "none" | "copy_first" | "clear_first" at its last clear
    h_unacked,     \* a transfer completed that no handler execution has acknowledged yet
    h_unseen,      \* the handler set the flag after the last test that found it set
    h_sincePoll,   \* transfers completed since the last poll of the main loop: 0, 1, 2 (= 2 or more)
    h_kPoll,       \* h_sincePoll as the poll that began the iteration under way found it
    h_hits,        \* polls of the main loop that found the flag set
    \* ---- ring buffer call preempted by an interrupt-context call ----
    p_kind,      \* the foreground call: "idle" | "read" | "write" | "done"
    p_pc,        \* the load or store it executes next
    p_tmp,       \* the register holding the value it loaded last
    p_data,      \* the data argument of a foreground write
    p_ret,       \* its return value (once p_kind = "done")
    p_isr,       \* << >>, or the call the interrupt made meanwhile: <<"write", data>>,
                 \* <<"read", returned, value>>
    p_start,     \* [rb, storage, out]: the buffer and the caller's variable when it began
    \* ---- a function of its argument alone, called on its own ----
    f_op,        \* "none" | "convert" | "error_get_string" | "timer_rate"
    f_in,        \* the argument
    f_out,       \* what was returned
    \* ---- start-up ----
    b_pos,       \* the statement of system_init executed next (past the last: returned)
    b_done       \* the statements of system_init executed, in order

rbVars == <<rb, storage, rb_out, rb_ret, rb_op, g_fifo, g_expect, g_writes, g_reads, g_phase,
            g_off, g_stamp, g_peek, g_peekRes>>

errVars == <<error_history, error_count, error_index, critical_error_flag, err_op,
             e_n, e_recent, e_critSeen, e_before>>

adcVars == <<mem, adc_status, adc_conversion_complete, TCIF0, isr_pc, fg_kind, fg_pos,
             fg_op, fg_ret, reading, ml_raw, sample_count, led_toggle_count, led, uart_last,
             h_transfers, h_last, h_sets, h_oks, h_setSinceOk, h_okFresh, h_copied,
             h_atCopy, h_clearOrder, h_unacked, h_unseen, h_sincePoll, h_kPoll, h_hits>>

preVars == <<p_kind, p_pc, p_tmp, p_data, p_ret, p_isr, p_start>>

pureVars == <<f_op, f_in, f_out>>

bootVars == <<b_pos, b_done>>

vars == <<rbVars, errVars, adcVars, preVars, pureVars, bootVars>>

(***************************************************************************)
(* Ring buffer                                                             *)
(***************************************************************************)
Data == 1..MaxData

\* an init that marks the empty buffer full
RbInitFields_Full(size) ==
    [head |-> 0, tail |-> 0, size |-> size, count |-> 0, full |-> TRUE]

\* ring_buffer_init, lines 12-17: the fields after a successful init
RbInitFields(size) ==
    [head |-> 0, tail |-> 0, size |-> size, count |-> 0, full |-> FALSE]

ring_buffer_is_empty_ByIndices == rb.head = rb.tail

ring_buffer_is_empty == rb.count = 0

ring_buffer_is_full == rb.full

ring_buffer_count == rb.count

\* a write that counts on without the reset of line 34
RbWriteFields_NoCountReset ==
    LET head1  == (rb.head + 1) % rb.size
        count1 == (rb.count + 1) % UINT16
    IN  IF head1 = rb.tail
        THEN [rb EXCEPT !.head = head1, !.full = TRUE,
                        !.tail = (rb.tail + 1) % rb.size, !.count = count1]
        ELSE [rb EXCEPT !.head = head1, !.count = count1]

\* the fields after the body of ring_buffer_write
RbWriteFields ==
    LET head1  == (rb.head + 1) % rb.size
        count1 == (rb.count + 1) % UINT16
    IN  IF head1 = rb.tail
        THEN [rb EXCEPT !.head = head1, !.full = TRUE,
                        !.tail = (rb.tail + 1) % rb.size, !.count = rb.size]
        ELSE [rb EXCEPT !.head = head1, !.count = count1]

\* the fields after the body of ring_buffer_read on a non-empty buffer
RbReadFields ==
    [rb EXCEPT !.tail = (rb.tail + 1) % rb.size,
               !.count = (rb.count + UINT16 - 1) % UINT16,
               !.full = FALSE]

\* no slot written since the last init/clear
NoStamps == [i \in 0..(MaxSize - 1) |-> 0]

\* the overwrite-oldest FIFO after one more write
FifoPush(q, size, d) ==
    IF Len(q) >= size THEN Append(Tail(q), d) ELSE Append(q, d)

\* a call rejected for a NULL pointer (or size 0): nothing is touched
RbFail(op) ==
    /\ rb_op' = op
    /\ rb_ret' = FALSE
    /\ g_off' = 0
    /\ UNCHANGED <<rb, storage, rb_out, g_fifo, g_expect, g_writes, g_reads, g_phase,
                   g_stamp, g_peek, g_peekRes>>

ring_buffer_init(rbNull, bufNull, size) ==
    IF rbNull \/ bufNull \/ size = 0
    THEN RbFail("init_invalid")
    ELSE /\ rb' = RbInitFields(size)
         /\ rb_op' = "init"
         /\ rb_ret' = TRUE
         /\ g_fifo' = << >>
         /\ g_expect' = << >>
         /\ g_writes' = 0
         /\ g_reads' = 0
         /\ g_phase' = "writing"
         /\ g_stamp' = NoStamps
         /\ g_peek' = << >>
         /\ g_off' = 0
         /\ g_peekRes' = IF g_peekRes = "broken" THEN "broken" ELSE "none"
         /\ UNCHANGED <<storage, rb_out>>

\* ring_buffer_write, line 37: the return value on a non-NULL buffer
RbWriteReturn_RejectFull == ~rb.full

RbWriteReturn == TRUE

ring_buffer_write(rbNull, data) ==
    /\ g_writes < MaxWrites
    /\ IF rbNull
       THEN RbFail("write_null")
       ELSE /\ storage' = [storage EXCEPT ![rb.head] = data]
            /\ rb' = RbWriteFields
            /\ rb_op' = "write"
            /\ rb_ret' = RbWriteReturn
            /\ g_stamp' = [g_stamp EXCEPT ![rb.head] = g_writes + 1]
            /\ g_peek' = << >>
            /\ g_fifo' = FifoPush(g_fifo, rb.size, data)
            /\ g_writes' = g_writes + 1
            /\ g_reads' = 0
            /\ g_phase' = IF g_phase = "writing" THEN "writing" ELSE "mixed"
            /\ g_off' = 0
            /\ UNCHANGED <<rb_out, g_expect, g_peekRes>>

ring_buffer_read(rbNull, dataNull) ==
    IF rbNull \/ dataNull
    THEN RbFail("read_null")
    ELSE IF ring_buffer_is_empty
    THEN /\ rb_op' = "read"
         /\ rb_ret' = FALSE
         /\ g_expect' = IF g_fifo = << >> THEN << >> ELSE <<Head(g_fifo)>>
         /\ g_fifo' = IF g_fifo = << >> THEN << >> ELSE Tail(g_fifo)
         /\ g_peek' = << >>
         /\ g_peekRes' = IF g_peek = << >> THEN g_peekRes ELSE "broken"
         /\ g_off' = 0
         /\ UNCHANGED <<rb, storage, rb_out, g_writes, g_reads, g_phase, g_stamp>>
    ELSE /\ rb_out' = storage[rb.tail]
         /\ rb' = RbReadFields
         /\ rb_op' = "read"
         /\ rb_ret' = TRUE
         /\ g_expect' = IF g_fifo = << >> THEN << >> ELSE <<Head(g_fifo)>>
         /\ g_fifo' = IF g_fifo = << >> THEN << >> ELSE Tail(g_fifo)
         /\ g_reads' = g_reads + 1
         /\ g_phase' = IF g_phase = "mixed" THEN "mixed" ELSE "reading"
         /\ g_peek' = IF g_peek = << >> \/ g_peek[1] = 0
                      THEN << >>
                      ELSE <<g_peek[1] - 1, g_peek[2], g_peek[3]>>
         /\ g_peekRes' = IF g_peek = << >> \/ g_peek[1] > 0 \/ g_peekRes = "broken"
                         THEN g_peekRes
                         ELSE IF g_peek[2] # storage[rb.tail] THEN "broken"
                         ELSE IF g_peek[3] = 0 THEN "kept0" ELSE "kept"
         /\ g_off' = 0
         /\ UNCHANGED <<storage, g_writes, g_stamp>>

\* ring_buffer_peek, line 66: the slot an accepted offset names
PeekIndex_FromHead(offset) == (rb.head + offset) % rb.size

PeekIndex(offset) == (rb.tail + offset) % rb.size

\* ring_buffer_peek, lines 66-69: the fields after an accepted peek (none is assigned)
RbPeekFields_Consumes == RbReadFields

RbPeekFields == rb

ring_buffer_peek(rbNull, offset, dataNull) ==
    IF rbNull \/ dataNull
    THEN /\ rb_op' = "peek_null"
         /\ rb_ret' = FALSE
         /\ g_off' = offset
         /\ UNCHANGED <<rb, storage, rb_out, g_fifo, g_expect, g_writes, g_reads, g_phase,
                        g_stamp, g_peek, g_peekRes>>
    ELSE IF offset >= rb.count
    THEN /\ rb_op' = "peek"
         /\ rb_ret' = FALSE
         /\ g_off' = offset
         /\ UNCHANGED <<rb, storage, rb_out, g_fifo, g_expect, g_writes, g_reads, g_phase,
                        g_stamp, g_peek, g_peekRes>>
    ELSE /\ rb_out' = storage[PeekIndex(offset)]
         /\ rb_op' = "peek"
         /\ rb_ret' = TRUE
         /\ g_off' = offset
         /\ g_peek' = <<offset, storage[PeekIndex(offset)], offset>>
         /\ rb' = RbPeekFields
         /\ UNCHANGED <<storage, g_fifo, g_expect, g_writes, g_reads, g_phase,
                        g_stamp, g_peekRes>>

\* ring_buffer_clear, lines 97-100: the fields after a clear
RbClearFields_KeepFull == [rb EXCEPT !.head = 0, !.tail = 0, !.count = 0]

RbClearFields == [rb EXCEPT !.head = 0, !.tail = 0, !.count = 0, !.full = FALSE]

ring_buffer_clear(rbNull) ==
    IF rbNull
    THEN /\ rb_op' = "clear_null"
         /\ g_off' = 0
         /\ UNCHANGED <<rb, storage, rb_out, rb_ret, g_fifo, g_expect, g_writes, g_reads, g_phase,
                        g_stamp, g_peek, g_peekRes>>
    ELSE /\ rb' = RbClearFields
         /\ rb_op' = "clear"
         /\ g_fifo' = << >>
         /\ g_expect' = << >>
         /\ g_writes' = 0
         /\ g_reads' = 0
         /\ g_phase' = "mixed"
         /\ g_stamp' = NoStamps
         /\ g_peek' = << >>
         /\ g_off' = 0
         /\ g_peekRes' = IF g_peekRes = "broken" THEN "broken" ELSE "none"
         /\ UNCHANGED <<storage, rb_out, rb_ret>>

\* the state after main() has called ring_buffer_init on a static (zeroed) array
InitRb ==
    /\ rb = RbInitFields(MaxSize)
    /\ storage = [i \in 0..(MaxSize - 1) |-> 0]
    /\ rb_out = 0
    /\ rb_ret = TRUE
    /\ rb_op = "init"
    /\ g_fifo = << >>
    /\ g_expect = << >>
    /\ g_writes = 0
    /\ g_reads = 0
    /\ g_phase = "writing"
    /\ g_off = 0
    /\ g_stamp = NoStamps
    /\ g_peek = << >>
    /\ g_peekRes = "none"

RbInitCall ==
    /\ \E rbNull \in BOOLEAN, bufNull \in BOOLEAN, size \in 0..MaxSize :
           ring_buffer_init(rbNull, bufNull, size)
    /\ UNCHANGED <<errVars, adcVars, preVars, pureVars, bootVars>>

RbWriteCall ==
    /\ \E rbNull \in BOOLEAN, data \in Data : ring_buffer_write(rbNull, data)
    /\ UNCHANGED <<errVars, adcVars, preVars, pureVars, bootVars>>

RbReadCall ==
    /\ \E rbNull \in BOOLEAN, dataNull \in BOOLEAN : ring_buffer_read(rbNull, dataNull)
    /\ UNCHANGED <<errVars, adcVars, preVars, pureVars, bootVars>>

RbClearCall ==
    /\ \E rbNull \in BOOLEAN : ring_buffer_clear(rbNull)
    /\ UNCHANGED <<errVars, adcVars, preVars, pureVars, bootVars>>

\* arguments of ring_buffer_peek: every offset up to the capacity with valid pointers,
\* and one call for each NULL pointer
PeekInputs ==
    {<<FALSE, offset, FALSE>> : offset \in 0..MaxSize} \cup {<<TRUE, 0, FALSE>>, <<FALSE, 0, TRUE>>}

RbPeekCall ==
    /\ \E args \in PeekInputs : ring_buffer_peek(args[1], args[2], args[3])
    /\ UNCHANGED <<errVars, adcVars, preVars, pureVars, bootVars>>

NextRb ==
    \/ RbInitCall
    \/ RbWriteCall
    \/ RbReadCall
    \/ RbClearCall

\* the calls on the buffer of capacity MaxSize that Init set up, and ring_buffer_peek
NextRbPeek ==
    \/ RbWriteCall
    \/ RbReadCall
    \/ RbClearCall
    \/ RbPeekCall

(***************************************************************************)
(* Error / fault tracker                                                   *)
(***************************************************************************)
\* error_code_t values used as inputs
ERROR_ADC_FAILED == 1
ERROR_BUFFER_OVERFLOW == 16
ERROR_TIMEOUT == 128

\* a NULL message pointer
NullMsg == "(null)"

\* error_t after memset(..., 0, ...)
ZeroRecord == [code |-> 0, timestamp_ms |-> 0, severity |-> 0, message |-> NullMsg]

\* the (code, severity, message) arguments error_report is called with
ReportInputs ==
    { <<ERROR_BUFFER_OVERFLOW, 1, "ADC buffer full">>,
      <<ERROR_ADC_FAILED, 2, "ADC init failed">>,
      <<ERROR_TIMEOUT, 3, "timeout">> }

\* error_init / error_clear: memset(error_history, 0, sizeof(error_history))
ZeroHistory == [i \in 0..(MAX_ERROR_HISTORY - 1) |-> ZeroRecord]

\* error_report, lines 26-30: the slot written (timestamp_ms is left as it is)
ReportedSlot(code, severity, message) ==
    [error_history[error_index] EXCEPT !.code = code, !.severity = severity,
                                       !.message = message]

\* a threshold one too high
CriticalAfterReport_Above3(severity) ==
    IF severity > 3 THEN TRUE ELSE critical_error_flag

\* a report that recomputes the flag instead of only raising it
CriticalAfterReport_NotSticky(severity) == severity >= 3

\* error_report, lines 34-36
CriticalAfterReport(severity) ==
    IF severity >= 3 THEN TRUE ELSE critical_error_flag

\* a wrap one slot early
NextErrorIndex_OffByOne == (error_index + 1) % (MAX_ERROR_HISTORY - 1)

\* error_report, line 38
NextErrorIndex == (error_index + 1) % MAX_ERROR_HISTORY

\* no wrap to the last slot when the write index is 0
LastIndex_NoWrap == IF error_index > 0 THEN error_index - 1 ELSE 0

\* error_get_last, line 42
LastIndex == IF error_index > 0 THEN error_index - 1 ELSE MAX_ERROR_HISTORY - 1

error_get_last == error_history[LastIndex]

error_is_critical == critical_error_flag

error_get_count == error_count

\* what an observer keeps of the reports: the newest MAX_ERROR_HISTORY, in order
RecentPush(q, r) ==
    IF Len(q) >= MAX_ERROR_HISTORY THEN Append(Tail(q), r) ELSE Append(q, r)

ErrSnapshot == [n |-> e_n, crit |-> critical_error_flag, index |-> error_index]

error_init ==
    /\ error_count' = 0
    /\ error_index' = 0
    /\ critical_error_flag' = FALSE
    /\ error_history' = ZeroHistory
    /\ err_op' = "init"
    /\ e_n' = 0
    /\ e_recent' = << >>
    /\ e_critSeen' = FALSE
    /\ e_before' = ErrSnapshot

error_report(code, severity, message) ==
    /\ error_history' = [error_history EXCEPT ![error_index] =
                             ReportedSlot(code, severity, message)]
    /\ error_count' = (error_count + 1) % UINT16
    /\ critical_error_flag' = CriticalAfterReport(severity)
    /\ error_index' = NextErrorIndex
    /\ err_op' = "report"
    /\ e_n' = e_n + 1
    /\ e_recent' = RecentPush(e_recent, [ZeroRecord EXCEPT !.code = code,
                                  !.severity = severity, !.message = message])
    /\ e_critSeen' = (e_critSeen \/ severity >= 3)
    /\ e_before' = ErrSnapshot

\* a memset of one element instead of the array
ClearedHistory_FirstSlotOnly == [error_history EXCEPT ![0] = ZeroRecord]

\* a clear that forgets the memset
ClearedHistory_Kept == error_history

\* error_clear, line 50
ClearedHistory == ZeroHistory

error_clear ==
    /\ error_count' = 0
    /\ error_index' = 0
    /\ critical_error_flag' = FALSE
    /\ error_history' = ClearedHistory
    /\ err_op' = "clear"
    /\ e_n' = 0
    /\ e_recent' = << >>
    /\ e_critSeen' = FALSE
    /\ e_before' = ErrSnapshot

\* the static initialisers of utils/error.c, lines 9-12
InitErr ==
    /\ error_history = ZeroHistory
    /\ error_count = 0
    /\ error_index = 0
    /\ critical_error_flag = FALSE
    /\ err_op = "boot"
    /\ e_n = 0
    /\ e_recent = << >>
    /\ e_critSeen = FALSE
    /\ e_before = [n |-> 0, crit |-> FALSE, index |-> 0]

ErrInitCall == error_init /\ UNCHANGED <<rbVars, adcVars, preVars, pureVars, bootVars>>

ErrReportCall ==
    /\ e_n < MaxReports
    /\ \E in \in ReportInputs : error_report(in[1], in[2], in[3])
    /\ UNCHANGED <<rbVars, adcVars, preVars, pureVars, bootVars>>

\* the largest uint8_t, the type of the severity parameter
UINT8_MAX == 255

\* severities at and around the threshold of line 34 and at the ends of the type
SeverityValues == {0, 1, 2, 3, 4, UINT8_MAX}

\* reports of one error with each of these severities
ErrSeverityCall ==
    /\ e_n < MaxSevReports
    /\ \E severity \in SeverityValues : error_report(ERROR_ADC_FAILED, severity, "ADC init failed")
    /\ UNCHANGED <<rbVars, adcVars, preVars, pureVars, bootVars>>

\* a long run of reports of one error, carried past the range of the uint16_t counter
ErrReportRun ==
    /\ e_n < UINT16 + MaxReports
    /\ error_report(ERROR_TIMEOUT, 1, "timeout")
    /\ UNCHANGED <<rbVars, adcVars, preVars, pureVars, bootVars>>

ErrClearCall == error_clear /\ UNCHANGED <<rbVars, adcVars, preVars, pureVars, bootVars>>

NextErr ==
    \/ ErrInitCall
    \/ ErrReportCall
    \/ ErrClearCall

\* the tracker under reports of every kind of severity
NextErrSeverity ==
    \/ ErrInitCall
    \/ ErrSeverityCall
    \/ ErrClearCall

(***************************************************************************)
(* Acquisition handoff: DMA2 stream 0, DMA2_Stream0_IRQHandler,            *)
(* adc_get_reading and the main loop                                       *)
(***************************************************************************)
\* config.h
ADC_REFERENCE_MV == 3300

\* config.h: ((1 << ADC_RESOLUTION) - 1)
ADC_MAX_VALUE == 4095

\* raw counts the converter delivers
SampleValues == {0, 2048}

\* main.c system_init: DMA2_Stream0->M0AR = (uint32_t)&adc_buffer[0]
M0AR == "adc_buffer"

adc_raw_value == mem["adc_raw_value"]

\* the product taken in the 16 bits of the argument
adc_raw_to_voltage_mv_In16Bits(raw_value) ==
    ((raw_value * ADC_REFERENCE_MV) % UINT16) \div ADC_MAX_VALUE

\* int arithmetic on a promoted uint16_t (at most 65535 * 3300 < 2^31), cast to uint32_t
adc_raw_to_voltage_mv(raw_value) ==
    (raw_value * ADC_REFERENCE_MV) \div ADC_MAX_VALUE

\* the components the handoff does not touch
others == <<rbVars, errVars, preVars, pureVars, bootVars>>

hwVars == <<mem, TCIF0>>

fgCtl == <<fg_kind, fg_pos, fg_op, fg_ret>>

mlVars == <<ml_raw, sample_count, led_toggle_count, led, uart_last>>

okObs == <<h_oks, h_setSinceOk, h_okFresh>>

\* ---- hardware: timer trigger, conversion, one circular DMA transfer ----
\* the transfer of one conversion result v completes
DmaComplete(v) ==
    /\ mem' = [mem EXCEPT ![M0AR] = v]
    /\ TCIF0' = TRUE
    /\ h_transfers' = h_transfers + 1
    /\ h_last' = v
    /\ UNCHANGED <<adc_status, adc_conversion_complete, isr_pc, fgCtl, reading, mlVars,
                   h_sets, okObs, h_copied, h_atCopy, h_clearOrder>>
    /\ h_unacked' = TRUE
    /\ UNCHANGED h_unseen
    /\ h_sincePoll' = IF h_sincePoll < 2 THEN h_sincePoll + 1 ELSE 2
    /\ UNCHANGED <<h_kPoll, h_hits>>
    /\ UNCHANGED others

DmaTransfer(v) ==
    /\ h_transfers < MaxTransfers
    /\ DmaComplete(v)

\* a longer run of transfers of one value, for the LED that counts processed samples
LedTransfer ==
    /\ h_transfers < MaxLedTransfers
    /\ DmaComplete(0)

\* ---- DMA2_Stream0_IRQHandler: preempts the foreground, runs to its end ----
\* the pending interrupt is taken and line 80 is evaluated
IsrEnter ==
    /\ isr_pc = "none"
    /\ TCIF0
    /\ isr_pc' = IF TCIF0 THEN "isr_ack" ELSE "none"
    /\ UNCHANGED <<hwVars, adc_status, adc_conversion_complete, fgCtl, reading, mlVars,
                   h_transfers, h_last, h_sets, okObs, h_copied, h_atCopy, h_clearOrder>>
    /\ UNCHANGED <<h_unacked, h_unseen>>
    /\ UNCHANGED <<h_sincePoll, h_kPoll, h_hits>>
    /\ UNCHANGED others

\* line 81: the indicator after the write of CTCIF0 to DMA2->LIFCR
TcifAfterAck_Kept == TCIF0

TcifAfterAck == FALSE

\* line 81: DMA2->LIFCR |= DMA_LIFCR_CTCIF0
IsrAck ==
    /\ isr_pc = "isr_ack"
    /\ TCIF0' = TcifAfterAck
    /\ isr_pc' = "isr_set"
    /\ UNCHANGED <<mem, adc_status, adc_conversion_complete, fgCtl, reading, mlVars,
                   h_transfers, h_last, h_sets, okObs, h_copied, h_atCopy, h_clearOrder>>
    /\ h_unacked' = FALSE
    /\ UNCHANGED h_unseen
    /\ UNCHANGED <<h_sincePoll, h_kPoll, h_hits>>
    /\ UNCHANGED others

\* a handler that also copies the transferred sample into adc_raw_value
IsrSet_CopiesSample ==
    /\ isr_pc = "isr_set"
    /\ adc_conversion_complete' = TRUE
    /\ mem' = [mem EXCEPT !["adc_raw_value"] = mem[M0AR]]
    /\ isr_pc' = "none"
    /\ h_sets' = h_sets + 1
    /\ h_setSinceOk' = TRUE
    /\ UNCHANGED <<TCIF0, adc_status, fgCtl, reading, mlVars,
                   h_transfers, h_last, h_oks, h_okFresh, h_copied, h_atCopy, h_clearOrder>>
    /\ h_unseen' = TRUE
    /\ UNCHANGED h_unacked
    /\ UNCHANGED <<h_sincePoll, h_kPoll, h_hits>>
    /\ UNCHANGED others

\* line 82: adc_conversion_complete = true, and the return
IsrSet ==
    /\ isr_pc = "isr_set"
    /\ adc_conversion_complete' = TRUE
    /\ isr_pc' = "none"
    /\ h_sets' = h_sets + 1
    /\ h_setSinceOk' = TRUE
    /\ UNCHANGED <<hwVars, adc_status, fgCtl, reading, mlVars,
                   h_transfers, h_last, h_oks, h_okFresh, h_copied, h_atCopy, h_clearOrder>>
    /\ h_unseen' = TRUE
    /\ UNCHANGED h_unacked
    /\ UNCHANGED <<h_sincePoll, h_kPoll, h_hits>>
    /\ UNCHANGED others

\* ---- adc_get_reading ----
\* the flag is never cleared
GrSteps_NoClear == <<"gr_raw", "gr_mv", "gr_status">>

\* the flag is cleared before the sample is copied
GrSteps_ClearFirst == <<"gr_clear", "gr_raw", "gr_mv", "gr_status">>

\* the statements after the two early returns, in program order:
\* line 52, lines 53-55, line 56, line 58
GrSteps == <<"gr_raw", "gr_mv", "gr_status", "gr_clear">>

\* a call that discards the flag before it looks at its argument
GrEnter_ClearsFirst(readingNull) ==
    /\ isr_pc = "none"
    /\ fg_kind = "idle"
    /\ fg_op' = "adc_get_reading"
    /\ IF readingNull
       THEN fg_ret' = "ADC_STATUS_ERROR" /\ UNCHANGED <<fg_kind, fg_pos>>
       ELSE IF ~adc_conversion_complete
       THEN fg_ret' = "ADC_STATUS_NOT_READY" /\ UNCHANGED <<fg_kind, fg_pos>>
       ELSE fg_ret' = "pending" /\ fg_kind' = "gr" /\ fg_pos' = 1
    /\ h_copied' = FALSE
    /\ adc_conversion_complete' = (adc_conversion_complete /\ ~readingNull)
    /\ UNCHANGED <<hwVars, adc_status, isr_pc, reading, mlVars,
                   h_transfers, h_last, h_sets, okObs, h_atCopy, h_clearOrder>>
    /\ h_unseen' = (h_unseen /\ (readingNull \/ ~adc_conversion_complete))
    /\ UNCHANGED h_unacked
    /\ UNCHANGED <<h_sincePoll, h_kPoll, h_hits>>
    /\ UNCHANGED others

\* lines 44-50: the NULL check and the test of the flag
GrEnter(readingNull) ==
    /\ isr_pc = "none"
    /\ fg_kind = "idle"
    /\ fg_op' = "adc_get_reading"
    /\ IF readingNull
       THEN fg_ret' = "ADC_STATUS_ERROR" /\ UNCHANGED <<fg_kind, fg_pos>>
       ELSE IF ~adc_conversion_complete
       THEN fg_ret' = "ADC_STATUS_NOT_READY" /\ UNCHANGED <<fg_kind, fg_pos>>
       ELSE fg_ret' = "pending" /\ fg_kind' = "gr" /\ fg_pos' = 1
    /\ h_copied' = FALSE
    /\ UNCHANGED <<hwVars, adc_status, adc_conversion_complete, isr_pc, reading, mlVars,
                   h_transfers, h_last, h_sets, okObs, h_atCopy, h_clearOrder>>
    /\ h_unseen' = (h_unseen /\ (readingNull \/ ~adc_conversion_complete))
    /\ UNCHANGED h_unacked
    /\ UNCHANGED <<h_sincePoll, h_kPoll, h_hits>>
    /\ UNCHANGED others

GrAt(step) ==
    /\ isr_pc = "none"
    /\ fg_kind = "gr"
    /\ GrSteps[fg_pos] = step

\* on to the next statement, or line 59: return ADC_STATUS_OK
GrAdvance ==
    /\ fg_op' = fg_op
    /\ IF fg_pos < Len(GrSteps)
       THEN /\ fg_pos' = fg_pos + 1
            /\ UNCHANGED <<fg_kind, fg_ret, okObs>>
       ELSE /\ fg_kind' = "idle"
            /\ fg_pos' = 0
            /\ fg_ret' = "ADC_STATUS_OK"
            /\ h_oks' = h_oks + 1
            /\ h_okFresh' = h_setSinceOk
            /\ h_setSinceOk' = FALSE

\* line 52: reading->raw_value = adc_raw_value
GrRaw ==
    /\ GrAt("gr_raw")
    /\ reading' = [reading EXCEPT !.raw_value = adc_raw_value]
    /\ h_copied' = TRUE
    /\ h_atCopy' = h_last
    /\ GrAdvance
    /\ UNCHANGED <<hwVars, adc_status, adc_conversion_complete, isr_pc, mlVars,
                   h_transfers, h_last, h_sets, h_clearOrder>>
    /\ UNCHANGED <<h_unacked, h_unseen>>
    /\ UNCHANGED <<h_sincePoll, h_kPoll, h_hits>>
    /\ UNCHANGED others

\* lines 53-55: voltage_mv from a second read of adc_raw_value, whole and decimal
GrMv ==
    /\ GrAt("gr_mv")
    /\ LET mv == adc_raw_to_voltage_mv(adc_raw_value)
       IN  reading' = [reading EXCEPT !.voltage_mv = mv,
                                      !.voltage_whole = mv \div 1000,
                                      !.voltage_decimal = mv % 1000]
    /\ GrAdvance
    /\ UNCHANGED <<hwVars, adc_status, adc_conversion_complete, isr_pc, mlVars,
                   h_transfers, h_last, h_sets, h_copied, h_atCopy, h_clearOrder>>
    /\ UNCHANGED <<h_unacked, h_unseen>>
    /\ UNCHANGED <<h_sincePoll, h_kPoll, h_hits>>
    /\ UNCHANGED others

\* line 56: reading->status = adc_status
GrStatus ==
    /\ GrAt("gr_status")
    /\ reading' = [reading EXCEPT !.status = adc_status]
    /\ GrAdvance
    /\ UNCHANGED <<hwVars, adc_status, adc_conversion_complete, isr_pc, mlVars,
                   h_transfers, h_last, h_sets, h_copied, h_atCopy, h_clearOrder>>
    /\ UNCHANGED <<h_unacked, h_unseen>>
    /\ UNCHANGED <<h_sincePoll, h_kPoll, h_hits>>
    /\ UNCHANGED others

\* line 58: adc_conversion_complete = false
GrClear ==
    /\ GrAt("gr_clear")
    /\ adc_conversion_complete' = FALSE
    /\ h_clearOrder' = [h_clearOrder EXCEPT !["adc_get_reading"] =
                           IF h_copied THEN "copy_first" ELSE "clear_first"]
    /\ GrAdvance
    /\ UNCHANGED <<hwVars, adc_status, isr_pc, reading, mlVars,
                   h_transfers, h_last, h_sets, h_copied, h_atCopy>>
    /\ UNCHANGED <<h_unacked, h_unseen>>
    /\ UNCHANGED <<h_sincePoll, h_kPoll, h_hits>>
    /\ UNCHANGED others

\* ---- adc_start ----
\* line 36: the value adc_start writes to the flag
StartFlagValue_Sets == TRUE

StartFlagValue == FALSE

\* lines 35-36: ADC1->CR2 |= ADC_CR2_ADON; adc_conversion_complete = false;
AdcStart ==
    /\ isr_pc = "none"
    /\ fg_kind = "idle"
    /\ fg_op' = "adc_start"
    /\ fg_ret' = "void"
    /\ adc_conversion_complete' = StartFlagValue
    /\ h_unseen' = FALSE
    /\ UNCHANGED <<hwVars, adc_status, isr_pc, fg_kind, fg_pos, reading, mlVars,
                   h_transfers, h_last, h_sets, okObs, h_copied, h_atCopy, h_clearOrder,
                   h_unacked>>
    /\ UNCHANGED <<h_sincePoll, h_kPoll, h_hits>>
    /\ UNCHANGED others

\* ---- main loop of main.c ----
\* core/dma.h, called at main.c line 77: the handoff flag as the spec describes it
dma_is_transfer_complete == adc_conversion_complete

\* core/dma.h, called at main.c line 79: the foreground clears the handoff flag
dma_clear_transfer_complete_flag == adc_conversion_complete' = FALSE

\* the body of the if at main.c line 77, in program order:
\* line 79, the read of adc_buffer[0] at line 82, process_adc_sample, lines 85-89
MlSteps_NoProcess == <<"ml_clear", "ml_read", "ml_led">>

MlSteps_ProcessTwice == <<"ml_clear", "ml_read", "ml_process", "ml_process", "ml_led">>

MlSteps == <<"ml_clear", "ml_read", "ml_process", "ml_led">>

\* line 77: one poll of the flag
MlPoll ==
    /\ isr_pc = "none"
    /\ fg_kind = "idle"
    /\ fg_op' = "main_loop"
    /\ IF dma_is_transfer_complete
       THEN fg_ret' = "pending" /\ fg_kind' = "ml" /\ fg_pos' = 1
       ELSE fg_ret' = "no_sample" /\ UNCHANGED <<fg_kind, fg_pos>>
    /\ h_copied' = FALSE
    /\ UNCHANGED <<hwVars, adc_status, adc_conversion_complete, isr_pc, reading, mlVars,
                   h_transfers, h_last, h_sets, okObs, h_atCopy, h_clearOrder>>
    /\ h_unseen' = (h_unseen /\ ~dma_is_transfer_complete)
    /\ UNCHANGED h_unacked
    /\ h_kPoll' = IF dma_is_transfer_complete THEN h_sincePoll ELSE 0
    /\ h_sincePoll' = 0
    /\ h_hits' = IF dma_is_transfer_complete THEN h_hits + 1 ELSE h_hits
    /\ UNCHANGED others

MlAt(step) ==
    /\ isr_pc = "none"
    /\ fg_kind = "ml"
    /\ MlSteps[fg_pos] = step

\* on to the next statement, or back to the top of the while loop
MlAdvance ==
    /\ fg_op' = fg_op
    /\ IF fg_pos < Len(MlSteps)
       THEN fg_pos' = fg_pos + 1 /\ UNCHANGED <<fg_kind, fg_ret>>
       ELSE fg_kind' = "idle" /\ fg_pos' = 0 /\ fg_ret' = "processed"

\* line 79
MlClear ==
    /\ MlAt("ml_clear")
    /\ dma_clear_transfer_complete_flag
    /\ h_clearOrder' = [h_clearOrder EXCEPT !["main_loop"] =
                           IF h_copied THEN "copy_first" ELSE "clear_first"]
    /\ MlAdvance
    /\ UNCHANGED <<hwVars, adc_status, isr_pc, reading, mlVars,
                   h_transfers, h_last, h_sets, okObs, h_copied, h_atCopy>>
    /\ h_unseen' = FALSE
    /\ UNCHANGED h_unacked
    /\ UNCHANGED <<h_sincePoll, h_kPoll, h_hits>>
    /\ UNCHANGED others

\* line 82: the argument adc_buffer[0] is read
MlRead ==
    /\ MlAt("ml_read")
    /\ ml_raw' = mem["adc_buffer"]
    /\ h_copied' = TRUE
    /\ MlAdvance
    /\ UNCHANGED <<hwVars, adc_status, adc_conversion_complete, isr_pc, reading,
                   sample_count, led_toggle_count, led, uart_last,
                   h_transfers, h_last, h_sets, okObs, h_atCopy, h_clearOrder>>
    /\ UNCHANGED <<h_unacked, h_unseen>>
    /\ UNCHANGED <<h_sincePoll, h_kPoll, h_hits>>
    /\ UNCHANGED others

\* process_adc_sample, lines 198-202
ProcessVoltageMv_DivideFirst(raw_value) == (raw_value \div 4095) * 3300

ProcessVoltageMv(raw_value) == (raw_value * 3300) \div 4095

\* a line formatted before the counter is incremented
process_adc_sample_CountAfter(raw_value) ==
    LET count1 == sample_count + 1
        mv     == ProcessVoltageMv(raw_value)
    IN  /\ sample_count' = count1
        /\ uart_last' = [index |-> sample_count, raw |-> raw_value,
                         whole |-> mv \div 1000, decimal |-> mv % 1000]

\* process_adc_sample(raw_value): the arguments of the formatted line
process_adc_sample(raw_value) ==
    LET count1 == sample_count + 1    \* uint32_t, far from its wrap here
        mv     == ProcessVoltageMv(raw_value)
    IN  /\ sample_count' = count1
        /\ uart_last' = [index |-> count1, raw |-> raw_value,
                         whole |-> mv \div 1000, decimal |-> mv % 1000]

\* line 82: the call
MlProcess ==
    /\ MlAt("ml_process")
    /\ process_adc_sample(ml_raw)
    /\ MlAdvance
    /\ UNCHANGED <<hwVars, adc_status, adc_conversion_complete, isr_pc, reading,
                   ml_raw, led_toggle_count, led,
                   h_transfers, h_last, h_sets, okObs, h_copied, h_atCopy, h_clearOrder>>
    /\ UNCHANGED <<h_unacked, h_unseen>>
    /\ UNCHANGED <<h_sincePoll, h_kPoll, h_hits>>
    /\ UNCHANGED others

\* a toggle one sample late
MlLed_Every11 ==
    /\ MlAt("ml_led")
    /\ LET t1 == led_toggle_count + 1
       IN  IF t1 > 10
           THEN led' = ~led /\ led_toggle_count' = 0
           ELSE led' = led /\ led_toggle_count' = t1
    /\ MlAdvance
    /\ UNCHANGED <<hwVars, adc_status, adc_conversion_complete, isr_pc, reading,
                   ml_raw, sample_count, uart_last,
                   h_transfers, h_last, h_sets, okObs, h_copied, h_atCopy, h_clearOrder>>
    /\ UNCHANGED <<h_unacked, h_unseen>>
    /\ h_kPoll' = 0
    /\ UNCHANGED <<h_sincePoll, h_hits>>
    /\ UNCHANGED others

\* lines 85-89
MlLed ==
    /\ MlAt("ml_led")
    /\ LET t1 == led_toggle_count + 1
       IN  IF t1 >= 10
           THEN led' = ~led /\ led_toggle_count' = 0
           ELSE led' = led /\ led_toggle_count' = t1
    /\ MlAdvance
    /\ UNCHANGED <<hwVars, adc_status, adc_conversion_complete, isr_pc, reading,
                   ml_raw, sample_count, uart_last,
                   h_transfers, h_last, h_sets, okObs, h_copied, h_atCopy, h_clearOrder>>
    /\ UNCHANGED <<h_unacked, h_unseen>>
    /\ h_kPoll' = 0
    /\ UNCHANGED <<h_sincePoll, h_hits>>
    /\ UNCHANGED others

\* the statics of adc.c and main.c and the LED, for a given adc_status and LED
AdcStatics(status, ledOn) ==
    /\ mem = [slot \in {"adc_raw_value", "adc_buffer"} |-> 0]
    /\ adc_status = status
    /\ adc_conversion_complete = FALSE
    /\ TCIF0 = FALSE
    /\ isr_pc = "none"
    /\ fg_kind = "idle"
    /\ fg_pos = 0
    /\ fg_op = "none"
    /\ fg_ret = "none"
    /\ reading = [raw_value |-> 0, voltage_mv |-> 0, voltage_whole |-> 0,
                  voltage_decimal |-> 0, timestamp_ms |-> 0, status |-> "ADC_STATUS_OK"]
    /\ ml_raw = 0
    /\ sample_count = 0
    /\ led_toggle_count = 0
    /\ led = ledOn
    /\ uart_last = [index |-> 0, raw |-> 0, whole |-> 0, decimal |-> 0]
    /\ h_transfers = 0
    /\ h_last = 0
    /\ h_sets = 0
    /\ h_oks = 0
    /\ h_setSinceOk = FALSE
    /\ h_okFresh = TRUE
    /\ h_copied = FALSE
    /\ h_atCopy = 0
    /\ h_clearOrder = [c \in {"adc_get_reading", "main_loop"} |-> "none"]
    /\ h_unacked = FALSE
    /\ h_unseen = FALSE
    /\ h_sincePoll = 0
    /\ h_kPoll = 0
    /\ h_hits = 0

\* after system_init: adc_init has set adc_status, gpio_init has switched the LED on
InitAdc == AdcStatics("ADC_STATUS_OK", TRUE)

NextHandoff ==
    \/ \E v \in SampleValues : DmaTransfer(v)
    \/ IsrEnter
    \/ IsrAck
    \/ IsrSet
    \/ \E readingNull \in BOOLEAN : GrEnter(readingNull)
    \/ GrRaw
    \/ GrMv
    \/ GrStatus
    \/ GrClear
    \/ MlPoll
    \/ MlClear
    \/ MlRead
    \/ MlProcess
    \/ MlLed

\* the main loop alone with the handler: the program as main.c runs it
NextMainLoop ==
    \/ \E v \in SampleValues : DmaTransfer(v)
    \/ IsrEnter
    \/ IsrAck
    \/ IsrSet
    \/ MlPoll
    \/ MlClear
    \/ MlRead
    \/ MlProcess
    \/ MlLed

\* the main loop and the handler over a run long enough for two toggles of the LED
NextLed ==
    \/ LedTransfer
    \/ IsrEnter
    \/ IsrAck
    \/ IsrSet
    \/ MlPoll
    \/ MlClear
    \/ MlRead
    \/ MlProcess
    \/ MlLed

\* the functions of adc.c alone: the handler, adc_get_reading and adc_start
NextAdc ==
    \/ \E v \in SampleValues : DmaTransfer(v)
    \/ IsrEnter
    \/ IsrAck
    \/ IsrSet
    \/ \E readingNull \in BOOLEAN : GrEnter(readingNull)
    \/ GrRaw
    \/ GrMv
    \/ GrStatus
    \/ GrClear
    \/ AdcStart

(***************************************************************************)
(* Ring buffer calls under preemption.  buffer.c takes no lock and masks   *)
(* no interrupt: a foreground call is a sequence of loads and stores, and  *)
(* a call made from interrupt context runs to completion between any two   *)
(* of them.                                                                *)
(***************************************************************************)
\* the observers of the sequential calls are not maintained here
rbGhosts == <<g_fifo, g_expect, g_writes, g_reads, g_phase, g_off, g_stamp, g_peek, g_peekRes>>

\* the calls made one after the other, before the preempted one
PreWriteAlone == p_kind = "idle" /\ RbWriteCall

PreReadAlone == p_kind = "idle" /\ RbReadCall

\* a foreground ring_buffer_read or ring_buffer_write (valid pointers) is entered
PreEnter(kind, data) ==
    /\ p_kind = "idle"
    /\ p_kind' = kind
    /\ p_pc' = IF kind = "read" THEN "r_chk" ELSE "w_store"
    /\ p_data' = data
    /\ p_start' = [rb |-> rb, storage |-> storage, out |-> rb_out]
    /\ UNCHANGED <<rbVars, p_tmp, p_ret, p_isr, errVars, adcVars, pureVars, bootVars>>

PreEnterCall ==
    \E kind \in {"read", "write"}, data \in Data :
        PreEnter(kind, IF kind = "write" THEN data ELSE 0)

\* the interrupt: the other call, executed whole
PreIsr ==
    /\ p_kind \in {"read", "write"}
    /\ p_isr = << >>
    /\ IF p_kind = "read"
       THEN \E data \in Data :
                /\ storage' = [storage EXCEPT ![rb.head] = data]
                /\ rb' = RbWriteFields
                /\ p_isr' = <<"write", data>>
       ELSE IF ring_buffer_is_empty
       THEN /\ p_isr' = <<"read", FALSE, 0>>
            /\ UNCHANGED <<rb, storage>>
       ELSE /\ p_isr' = <<"read", TRUE, storage[rb.tail]>>
            /\ rb' = RbReadFields
            /\ UNCHANGED storage
    /\ UNCHANGED <<rb_out, rb_ret, rb_op, rbGhosts, p_kind, p_pc, p_tmp, p_data, p_ret,
                   p_start, errVars, adcVars, pureVars, bootVars>>

\* one load or store of the foreground call: the fields, array and caller's variable
\* it leaves, the next position ("ret_true" / "ret_false": the call returns)
PreStep(pc, rb1, storage1, out1, tmp1, next) ==
    /\ p_kind \in {"read", "write"}
    /\ p_pc = pc
    /\ rb' = rb1
    /\ storage' = storage1
    /\ rb_out' = out1
    /\ p_tmp' = tmp1
    /\ IF next \in {"ret_true", "ret_false"}
       THEN p_kind' = "done" /\ p_pc' = "none" /\ p_ret' = (next = "ret_true")
       ELSE p_pc' = next /\ UNCHANGED <<p_kind, p_ret>>
    /\ UNCHANGED <<rb_ret, rb_op, rbGhosts, p_data, p_isr, p_start, errVars, adcVars,
                   pureVars, bootVars>>

\* ---- ring_buffer_read, lines 45-54 ----
\* line 45: if (ring_buffer_is_empty(rb)) return false;
PreReadChk ==
    PreStep("r_chk", rb, storage, rb_out, p_tmp,
            IF ring_buffer_is_empty THEN "ret_false" ELSE "r_idx")

\* line 49: load rb->tail
PreReadIdx == PreStep("r_idx", rb, storage, rb_out, rb.tail, "r_data")

\* line 49: *data = rb->buffer[tail]
PreReadData == PreStep("r_data", rb, storage, storage[p_tmp], p_tmp, "r_tail_ld")

\* line 50: load rb->tail
PreReadTailLd == PreStep("r_tail_ld", rb, storage, rb_out, rb.tail, "r_tail_st")

\* line 50: store rb->tail
PreReadTailSt ==
    PreStep("r_tail_st", [rb EXCEPT !.tail = (p_tmp + 1) % rb.size], storage, rb_out, p_tmp,
            "r_cnt_ld")

\* line 51: load rb->count
PreReadCntLd == PreStep("r_cnt_ld", rb, storage, rb_out, rb.count, "r_cnt_st")

\* line 51: store rb->count
PreReadCntSt ==
    PreStep("r_cnt_st", [rb EXCEPT !.count = (p_tmp + UINT16 - 1) % UINT16], storage, rb_out,
            p_tmp, "r_full")

\* lines 52, 54: rb->full = false; return true;
PreReadFull == PreStep("r_full", [rb EXCEPT !.full = FALSE], storage, rb_out, p_tmp, "ret_true")

\* ---- ring_buffer_write, lines 27-37 ----
\* line 27: rb->buffer[rb->head] = data
PreWriteStore ==
    PreStep("w_store", rb, [storage EXCEPT ![rb.head] = p_data], rb_out, p_tmp, "w_head")

\* line 28: rb->head = (rb->head + 1) % rb->size (head is touched by the writer only)
PreWriteHead ==
    PreStep("w_head", [rb EXCEPT !.head = (rb.head + 1) % rb.size], storage, rb_out, p_tmp,
            "w_cnt_ld")

\* line 29: load rb->count
PreWriteCntLd == PreStep("w_cnt_ld", rb, storage, rb_out, rb.count, "w_cnt_st")

\* line 29: store rb->count
PreWriteCntSt ==
    PreStep("w_cnt_st", [rb EXCEPT !.count = (p_tmp + 1) % UINT16], storage, rb_out, p_tmp,
            "w_cmp")

\* line 31: if (rb->head == rb->tail), else line 37: return true
PreWriteCmp ==
    PreStep("w_cmp", rb, storage, rb_out, p_tmp,
            IF rb.head = rb.tail THEN "w_full" ELSE "ret_true")

\* line 32: rb->full = true
PreWriteFull == PreStep("w_full", [rb EXCEPT !.full = TRUE], storage, rb_out, p_tmp, "w_tail_ld")

\* line 33: load rb->tail
PreWriteTailLd == PreStep("w_tail_ld", rb, storage, rb_out, rb.tail, "w_tail_st")

\* line 33: store rb->tail
PreWriteTailSt ==
    PreStep("w_tail_st", [rb EXCEPT !.tail = (p_tmp + 1) % rb.size], storage, rb_out, p_tmp,
            "w_cnt_sz")

\* lines 34, 37: rb->count = rb->size; return true;
PreWriteCntSz ==
    PreStep("w_cnt_sz", [rb EXCEPT !.count = rb.size], storage, rb_out, p_tmp, "ret_true")

\* ---- the two calls made one after the other, on an explicit buffer ----
\* s = [rb, storage, ret, got]: the buffer, and what the read of the pair returned
SeqWrite(s, data) ==
    LET head1 == (s.rb.head + 1) % s.rb.size
    IN  [s EXCEPT !.storage = [s.storage EXCEPT ![s.rb.head] = data],
                  !.rb = IF head1 = s.rb.tail
                         THEN [s.rb EXCEPT !.head = head1, !.full = TRUE,
                                           !.tail = (s.rb.tail + 1) % s.rb.size,
                                           !.count = s.rb.size]
                         ELSE [s.rb EXCEPT !.head = head1,
                                           !.count = (s.rb.count + 1) % UINT16]]

\* got: the value a successful read handed out, -1 for a refused read
SeqRead(s) ==
    IF s.rb.count = 0
    THEN [s EXCEPT !.ret = FALSE, !.got = -1]
    ELSE [s EXCEPT !.ret = TRUE, !.got = s.storage[s.rb.tail],
                   !.rb = [s.rb EXCEPT !.tail = (s.rb.tail + 1) % s.rb.size,
                                       !.count = (s.rb.count + UINT16 - 1) % UINT16,
                                       !.full = FALSE]]

\* the buffer when the foreground call began
PreStart == [rb |-> p_start.rb, storage |-> p_start.storage, ret |-> FALSE, got |-> -1]

\* the data the write of the pair carries
PreWriteData == IF p_isr # << >> /\ p_isr[1] = "write" THEN p_isr[2] ELSE p_data

\* what the pair left: the buffer, and what the read of the pair returned
PreActual ==
    LET isrRead == p_isr[1] = "read"
        ret == IF isrRead THEN p_isr[2] ELSE p_ret
    IN  [rb |-> rb, storage |-> storage, ret |-> ret,
         got |-> IF ~ret THEN -1 ELSE IF isrRead THEN p_isr[3] ELSE rb_out]

InitPre ==
    /\ p_kind = "idle"
    /\ p_pc = "none"
    /\ p_tmp = 0
    /\ p_data = 0
    /\ p_ret = FALSE
    /\ p_isr = << >>
    /\ p_start = [rb |-> RbInitFields(MaxSize), storage |-> [i \in 0..(MaxSize - 1) |-> 0],
                  out |-> 0]

NextRbPreempt ==
    \/ PreWriteAlone
    \/ PreReadAlone
    \/ PreEnterCall
    \/ PreIsr
    \/ PreReadChk
    \/ PreReadIdx
    \/ PreReadData
    \/ PreReadTailLd
    \/ PreReadTailSt
    \/ PreReadCntLd
    \/ PreReadCntSt
    \/ PreReadFull
    \/ PreWriteStore
    \/ PreWriteHead
    \/ PreWriteCntLd
    \/ PreWriteCntSt
    \/ PreWriteCmp
    \/ PreWriteFull
    \/ PreWriteTailLd
    \/ PreWriteTailSt
    \/ PreWriteCntSz

(***************************************************************************)
(* The functions that compute from their argument alone, applied to every  *)
(* value of their argument type the program can hand them.                 *)
(***************************************************************************)
\* the 12-bit conversion results: 0 .. ADC_MAX_VALUE
RawValues == 0..ADC_MAX_VALUE

\* adc_get_reading, lines 93-95: what it stores for a raw value
ReadingOf(raw_value) ==
    LET mv == adc_raw_to_voltage_mv(raw_value)
    IN  [voltage_mv |-> mv, voltage_whole |-> mv \div 1000, voltage_decimal |-> mv % 1000]

DecChars == <<"0", "1", "2", "3", "4", "5", "6", "7", "8", "9">>

\* snprintf "%lu": the decimal digits, most significant first
RECURSIVE FormatLu(_)
FormatLu(n) ==
    IF n < 10 THEN <<DecChars[n + 1]>>
    ELSE Append(FormatLu(n \div 10), DecChars[(n % 10) + 1])

\* snprintf "%03lu": the same, padded with zeros on the left to three characters
FormatLu03(n) ==
    LET s == FormatLu(n)
    IN  IF Len(s) >= 3 THEN s ELSE [i \in 1..(3 - Len(s)) |-> "0"] \o s

\* snprintf "%05lu": padded with zeros on the left to five characters
FormatLu05(n) ==
    LET s == FormatLu(n)
    IN  IF Len(s) >= 5 THEN s ELSE [i \in 1..(5 - Len(s)) |-> "0"] \o s

\* process_adc_sample, lines 198-208: the voltage it computes and the "%lu.%03lu" text
ProcessPrinted(raw_value) ==
    LET mv == ProcessVoltageMv(raw_value)
    IN  [voltage_mv |-> mv, voltage_whole |-> mv \div 1000, voltage_decimal |-> mv % 1000,
         text |-> FormatLu(mv \div 1000) \o <<".">> \o FormatLu03(mv % 1000)]

\* no call before: what these functions return depends on nothing an earlier call left
PureIdle == f_op = "none"

\* both conversions of one raw value
PureConvert ==
    \E raw_value \in RawValues :
        /\ PureIdle
        /\ f_op' = "convert"
        /\ f_in' = raw_value
        /\ f_out' = [product |-> raw_value * ADC_REFERENCE_MV,
                     adc |-> ReadingOf(raw_value),
                     main |-> ProcessPrinted(raw_value)]
        /\ UNCHANGED <<rbVars, errVars, adcVars, preVars, bootVars>>

\* include/drivers/buffer.h lines 96-107: the values of error_code_t not defined above
ERROR_NONE == 0
ERROR_DMA_FAILED == 2
ERROR_UART_FAILED == 4
ERROR_TIMER_FAILED == 8
ERROR_BUFFER_UNDERFLOW == 32
ERROR_INVALID_PARAM == 64
ERROR_UNKNOWN == 255

\* the values an error_code_t argument is given: one byte
ErrorCodes == 0..ERROR_UNKNOWN

\* a switch with no case for the last named code
error_get_string_NoTimeout(code) ==
    CASE code = ERROR_NONE -> "No error"
      [] code = ERROR_ADC_FAILED -> "ADC conversion failed"
      [] code = ERROR_DMA_FAILED -> "DMA transfer failed"
      [] code = ERROR_UART_FAILED -> "UART communication failed"
      [] code = ERROR_TIMER_FAILED -> "Timer initialization failed"
      [] code = ERROR_BUFFER_OVERFLOW -> "Buffer overflow"
      [] code = ERROR_BUFFER_UNDERFLOW -> "Buffer underflow"
      [] code = ERROR_INVALID_PARAM -> "Invalid parameter"
      [] OTHER -> "Unknown error"

\* utils/error.c lines 61-84: the switch
error_get_string(code) ==
    CASE code = ERROR_NONE -> "No error"
      [] code = ERROR_ADC_FAILED -> "ADC conversion failed"
      [] code = ERROR_DMA_FAILED -> "DMA transfer failed"
      [] code = ERROR_UART_FAILED -> "UART communication failed"
      [] code = ERROR_TIMER_FAILED -> "Timer initialization failed"
      [] code = ERROR_BUFFER_OVERFLOW -> "Buffer overflow"
      [] code = ERROR_BUFFER_UNDERFLOW -> "Buffer underflow"
      [] code = ERROR_INVALID_PARAM -> "Invalid parameter"
      [] code = ERROR_TIMEOUT -> "Operation timeout"
      [] OTHER -> "Unknown error"

\* a call of error_get_string: the function reads and writes no variable
PureErrorString ==
    \E code \in ErrorCodes :
        /\ PureIdle
        /\ f_op' = "error_get_string"
        /\ f_in' = code
        /\ f_out' = error_get_string(code)
        /\ UNCHANGED <<rbVars, errVars, adcVars, preVars, bootVars>>

\* config.h: the clock and the trigger timer's dividers
SYSCLK_FREQ == 16000000
ADC_SAMPLE_RATE_HZ == 100
TIM2_PRESCALER == 1600 - 1
\* the period written without the - 1
TIM2_PERIOD_OffByOne == (100 - 1) + 1

TIM2_PERIOD == 100 - 1

\* the update rate of a timer clocked at clock with prescaler register psc and
\* auto-reload register arr, and what the division leaves
TimerRate(clock, psc, arr) ==
    [rate |-> clock \div ((psc + 1) * (arr + 1)),
     remainder |-> clock % ((psc + 1) * (arr + 1))]

\* the trigger rate the configured pair gives
PureTimerRate ==
    /\ PureIdle
    /\ f_op' = "timer_rate"
    /\ f_in' = <<TIM2_PRESCALER, TIM2_PERIOD>>
    /\ f_out' = TimerRate(SYSCLK_FREQ, TIM2_PRESCALER, TIM2_PERIOD)
    /\ UNCHANGED <<rbVars, errVars, adcVars, preVars, bootVars>>

InitPure ==
    /\ f_op = "none"
    /\ f_in = 0
    /\ f_out = 0

NextPure ==
    \/ PureConvert
    \/ PureErrorString
    \/ PureTimerRate

(***************************************************************************)
(* Start-up: main calls system_init, then enters the loop.                 *)
(***************************************************************************)
\* the statements of system_init the way a build that starts the timer first has them
SysInitSteps_TimerFirst ==
    <<"uart_init", "gpio_init", "dma_init", "m0ar", "dma_enable", "timer_init",
      "timer_start", "adc_init", "enable_irq">>

\* main.c lines 110-132: the statements of system_init in program order
SysInitSteps ==
    <<"uart_init", "gpio_init", "dma_init", "m0ar", "dma_enable", "adc_init",
      "timer_init", "enable_irq", "timer_start">>

\* the statements of system_init executed so far
SysInitDone == {b_done[i] : i \in 1..Len(b_done)}

\* system_init has returned
SysInitReturned == b_pos > Len(SysInitSteps)

\* one statement of system_init: gpio_init switches the LED on (line 157), adc_init
\* sets adc_status (part_001 line 30); the other calls leave the modelled variables
SystemInitStep ==
    /\ b_pos <= Len(SysInitSteps)
    /\ b_pos' = b_pos + 1
    /\ b_done' = Append(b_done, SysInitSteps[b_pos])
    /\ led' = IF SysInitSteps[b_pos] = "gpio_init" THEN TRUE ELSE led
    /\ adc_status' = IF SysInitSteps[b_pos] = "adc_init" THEN "ADC_STATUS_OK" ELSE adc_status
    /\ UNCHANGED <<hwVars, adc_conversion_complete, isr_pc, fgCtl, reading, ml_raw,
                   sample_count, led_toggle_count, uart_last,
                   h_transfers, h_last, h_sets, okObs, h_copied, h_atCopy, h_clearOrder,
                   h_unacked, h_unseen, h_sincePoll, h_kPoll, h_hits>>
    /\ UNCHANGED <<rbVars, errVars, preVars, pureVars>>

\* TIM2 runs from timer_start on (line 131: "this triggers ADC conversions"); each
\* trigger ends in a completed transfer
BootTransfer ==
    /\ "timer_start" \in SysInitDone
    /\ \E v \in SampleValues : DmaTransfer(v)

\* the handler is entered once __enable_irq has been executed
BootIsrEnter == "enable_irq" \in SysInitDone /\ IsrEnter

\* line 73 on: the loop is entered when system_init has returned
BootMlPoll == SysInitReturned /\ MlPoll

\* the state at reset: system_init not entered, adc_status as line 7 of adc.c
\* initialises it, the LED pin at its reset value
InitPowerOn ==
    /\ InitRb
    /\ InitErr
    /\ AdcStatics("ADC_STATUS_NOT_READY", FALSE)
    /\ InitPre
    /\ InitPure
    /\ b_pos = 1
    /\ b_done = << >>

\* system_init has run
InitBooted ==
    /\ b_pos = Len(SysInitSteps) + 1
    /\ b_done = SysInitSteps

NextBoot ==
    \/ SystemInitStep
    \/ BootTransfer
    \/ BootIsrEnter
    \/ IsrAck
    \/ IsrSet
    \/ BootMlPoll
    \/ MlClear
    \/ MlRead
    \/ MlProcess
    \/ MlLed

Init == InitRb /\ InitErr /\ InitAdc /\ InitPre /\ InitPure /\ InitBooted

SpecRingBuffer == Init /\ [][NextRb]_vars

SpecRbPeek == Init /\ [][NextRbPeek]_vars

SpecRbPreempt == Init /\ [][NextRbPreempt]_vars

SpecErrorTracker == Init /\ [][NextErr]_vars

SpecErrorRun == Init /\ [][ErrReportRun]_vars

SpecErrSeverity == Init /\ [][NextErrSeverity]_vars

SpecHandoff == Init /\ [][NextHandoff]_vars

SpecAdc == Init /\ [][NextAdc]_vars

SpecMainLoop == Init /\ [][NextMainLoop]_vars

SpecLed == Init /\ [][NextLed]_vars

SpecPure == Init /\ [][NextPure]_vars

SpecBoot == InitPowerOn /\ [][NextBoot]_vars

\* one statement of the foreground: the while (1) of main.c never returns and waits
\* for nothing, so it keeps executing whenever the handler is not running
MlForeground == MlPoll \/ MlClear \/ MlRead \/ MlProcess \/ MlLed

\* one statement of the handler: once entered it runs to its end (no loop, no wait)
IsrBody == IsrAck \/ IsrSet

SpecMainLoopFair ==
    /\ Init
    /\ [][NextMainLoop]_vars
    /\ WF_vars(MlForeground)
    /\ WF_vars(IsrBody)

(***************************************************************************)
(* C1: after N > C writes into a freshly initialised buffer of capacity C, *)
(* count() = C and the C following reads return the last C written values  *)
(* in the order they were written.                                         *)
(***************************************************************************)
C1_LastCSurvive ==
    (g_phase \in {"writing", "reading"} /\ g_writes > rb.size)
        => /\ (rb_op = "write" /\ rb_ret) => ring_buffer_count = rb.size
           /\ (rb_op = "read" /\ g_expect # << >>) => (rb_ret /\ <<rb_out>> = g_expect)

(***************************************************************************)
(* C2: reads are FIFO: every successful ring_buffer_read returns the       *)
(* oldest written value that was neither read nor discarded by an          *)
(* overwrite, whatever the interleaving of writes and reads.               *)
(***************************************************************************)
C2_ReadIsFifo ==
    (rb_op = "read" /\ rb_ret) => <<rb_out>> = g_expect

(***************************************************************************)
(* C3: count = (head - tail) mod size while full is false, and             *)
(* count = size while full is true.                                        *)
(***************************************************************************)
C3_CountMatchesIndices ==
    /\ ~rb.full => rb.count = (rb.head - rb.tail + rb.size) % rb.size
    /\ rb.full => rb.count = rb.size

(***************************************************************************)
(* C7: after n error_report calls since the last error_init/error_clear,   *)
(* error_get_count() = n and the history array holds exactly the most      *)
(* recent min(n, MAX_ERROR_HISTORY) records: the j-th report sits in slot  *)
(* (j-1) mod MAX_ERROR_HISTORY unless a later report overwrote it, and the *)
(* slots never reported into are zero.                                     *)
(***************************************************************************)
C7_CountAndRetention ==
    /\ error_get_count = e_n
    /\ Len(e_recent) = (IF e_n < MAX_ERROR_HISTORY THEN e_n ELSE MAX_ERROR_HISTORY)
    /\ \A k \in 1..Len(e_recent) :
          error_history[(e_n - Len(e_recent) + k - 1) % MAX_ERROR_HISTORY] = e_recent[k]
    /\ \A i \in 0..(MAX_ERROR_HISTORY - 1) : i >= e_n => error_history[i] = ZeroRecord

\* 12 reports into the 10-slot history: reports 1 and 2 are overwritten
C7_Witness ==
    /\ e_n = 12
    /\ error_get_count = 12
    /\ error_index = 2
    /\ error_history[0] # error_history[2]

(***************************************************************************)
(* C8: for every n >= 1, error_get_last() returns the record of the n-th   *)
(* (most recent) report, also when n is a multiple of MAX_ERROR_HISTORY    *)
(* and the write index has wrapped to 0.                                   *)
(***************************************************************************)
C8_GetLastIsNewest ==
    e_n >= 1 => error_get_last = e_recent[Len(e_recent)]

\* the index has wrapped to 0 and slot 0 holds a different record than the newest
C8_Witness ==
    /\ e_n = MAX_ERROR_HISTORY
    /\ error_index = 0
    /\ error_history[0] # e_recent[Len(e_recent)]
    /\ error_get_last = e_recent[Len(e_recent)]

(***************************************************************************)
(* C9: once a report with severity >= 3 has been made, error_is_critical() *)
(* is true in every later state, whatever is reported afterwards and       *)
(* however often the history wraps, until error_clear or error_init.       *)
(***************************************************************************)
C9_CriticalIsSticky ==
    e_critSeen => error_is_critical

\* the critical record itself has been overwritten by later, milder reports
C9_Witness ==
    /\ e_critSeen
    /\ e_n > MAX_ERROR_HISTORY
    /\ \A i \in 0..(MAX_ERROR_HISTORY - 1) : error_history[i].severity < 3
    /\ error_is_critical

(***************************************************************************)
(* C10: from any reachable state error_clear() leaves error_is_critical()  *)
(* false, error_get_count() 0, the write index 0 and every history slot    *)
(* zeroed: the state error_init() leaves.                                  *)
(***************************************************************************)
C10_ClearResetsAll ==
    err_op = "clear" =>
        /\ error_is_critical = FALSE
        /\ error_get_count = 0
        /\ error_index = 0
        /\ \A i \in 0..(MAX_ERROR_HISTORY - 1) : error_history[i] = ZeroRecord

\* a clear of a tracker that was critical, had wrapped and stood at a non-zero index
C10_Witness ==
    /\ err_op = "clear"
    /\ e_before.crit
    /\ e_before.n > MAX_ERROR_HISTORY
    /\ e_before.index # 0
    /\ error_get_count = 0

(***************************************************************************)
(* C4: the foreground never observes the same ready transition twice: the  *)
(* adc_get_reading calls that returned ADC_STATUS_OK never outnumber the   *)
(* times the handler set adc_conversion_complete, and between two OK       *)
(* returns the handler has set the flag.                                   *)
(***************************************************************************)
C4_NoDoubleObservation ==
    /\ h_oks <= h_sets
    /\ h_okFresh

\* two OK returns although the handler ran three times: one set fell on a set flag
C4_Witness ==
    /\ h_oks = 2
    /\ h_sets = 3
    /\ fg_op = "adc_get_reading"
    /\ fg_ret = "ADC_STATUS_OK"

C6_ReadingIsLatestTransfer ==
    (fg_op = "adc_get_reading" /\ fg_ret = "ADC_STATUS_OK") => reading.raw_value = h_atCopy


(***************************************************************************)
(* Ring buffer: return values and frame conditions                         *)
(***************************************************************************)
\* the slot whose content was written longest ago carries the smallest stamp
OldestSlot(i) == \A j \in 0..(rb.size - 1) : g_stamp[i] <= g_stamp[j]

C12_ReadEmptyOrOneLess ==
    [][ rb_op' = "read" =>
          IF rb.count = 0
          THEN rb_ret' = FALSE /\ UNCHANGED <<rb, storage, rb_out>>
          ELSE rb_ret' = TRUE /\ rb'.count = rb.count - 1 ]_vars

\* a read was refused by an empty buffer whose caller still holds an earlier value,
\* after reads that took the count down one by one
C12_Witness ==
    /\ rb_op = "read"
    /\ rb_ret = FALSE
    /\ rb.count = 0
    /\ rb_out # 0
    /\ g_writes > 0

LastReadSlot == (rb.tail + rb.size - 1) % rb.size

\* C15: from any reachable state ring_buffer_clear puts head, tail and count to 0 and
\* full to false, which are the fields ring_buffer_init gives a buffer of the same
\* size: is_empty() is true, is_full() is false, a read or a peek made next fails and
\* leaves the caller's variable alone. The calls made later behave as on a fresh
\* buffer because the fields are those of a fresh buffer and no read ever returns a
\* slot that was not written since the clear (the array is the only thing a clear
\* leaves behind).
C15_ClearIsFreshInit ==
    /\ [][ rb_op' = "clear" =>
             /\ rb' = RbInitFields(rb.size)
             /\ rb'.count = 0 /\ rb'.full = FALSE
             /\ storage' = storage ]_vars
    /\ [][ (rb_op = "clear" /\ rb_op' \in {"read", "peek"}) =>
             (rb_ret' = FALSE /\ UNCHANGED <<rb, storage, rb_out>>) ]_vars
    /\ [](rb_op = "clear" => (ring_buffer_is_empty /\ ~ring_buffer_is_full))
    /\ []((rb_op = "read" /\ rb_ret = TRUE) => g_stamp[LastReadSlot] > 0)

\* a full buffer that had wrapped was cleared, then written and read again
C15_Witness ==
    /\ g_phase = "mixed"
    /\ rb_op = "read"
    /\ rb_ret = TRUE
    /\ g_writes = 2
    /\ rb.count = 1
    /\ \E i \in 0..(rb.size - 1) : g_stamp[i] = 0 /\ storage[i] # 0

(***************************************************************************)
(* Ring buffer: preemption                                                 *)
(***************************************************************************)
\* C16: when a ring_buffer_write made in interrupt context preempts a foreground
\* ring_buffer_read between any two of its loads and stores (or a read preempts a
\* write), the buffer fields, the array and the value the read returned are those of
\* one of the two sequential orders of the two calls.
C16_PreemptionIsSerializable ==
    (p_kind = "done" /\ p_isr # << >>) =>
        PreActual \in {SeqWrite(SeqRead(PreStart), PreWriteData),
                       SeqRead(SeqWrite(PreStart, PreWriteData))}

\* the sequential calls on the explicit buffer are the calls of the model
SeqAgrees ==
    LET s == [rb |-> rb, storage |-> storage, ret |-> FALSE, got |-> -1]
    IN  /\ \A d \in Data : SeqWrite(s, d).rb = RbWriteFields
        /\ rb.count > 0 => SeqRead(s).rb = RbReadFields /\ SeqRead(s).got = storage[rb.tail]

(***************************************************************************)
(* Acquisition handoff: the completion handler                             *)
(***************************************************************************)
\* C17: a handler execution entered with TCIF0 set clears it before it returns: TCIF0
\* is set exactly while a completed transfer awaits its acknowledgement, so the
\* handler is never entered again for a completion it has acknowledged, and the
\* executions that set the flag (counting the one past its acknowledgement and the
\* one still owed) never outnumber the completed transfers; one transfer causes
\* exactly one.
C17_AckBeforeReturn ==
    /\ TCIF0 <=> h_unacked
    /\ h_sets + (IF isr_pc = "isr_set" THEN 1 ELSE 0) + (IF h_unacked THEN 1 ELSE 0)
          <= h_transfers
    /\ (h_transfers = 1 /\ ~TCIF0 /\ isr_pc = "none") => h_sets = 1

\* the handler has acknowledged and returned twice, two transfers apart, nothing pending
C17_Witness ==
    /\ h_sets = 2
    /\ h_transfers = 2
    /\ isr_pc = "none"
    /\ ~TCIF0
    /\ adc_conversion_complete

\* a step of the handler: its position changes
IsrStep == isr_pc' # isr_pc

\* C18: the handler only acknowledges the completion (TCIF0 to false) and sets
\* adc_conversion_complete to true; its steps leave the sample slots, adc_status, the
\* caller's reading and all foreground and main loop state unchanged; its positions
\* are passed once, in order (no loop, no wait), and its next step is enabled in
\* every state, whatever the foreground is doing.
C18_HandlerOnlyAcksAndSets ==
    /\ [][ IsrStep =>
             /\ UNCHANGED <<mem, adc_status, fgCtl, reading, mlVars, others>>
             /\ TCIF0' # TCIF0 => (isr_pc = "isr_ack" /\ ~TCIF0')
             /\ adc_conversion_complete' # adc_conversion_complete =>
                   (isr_pc = "isr_set" /\ adc_conversion_complete')
             /\ <<isr_pc, isr_pc'>> \in {<<"none", "isr_ack">>, <<"isr_ack", "isr_set">>,
                                         <<"isr_set", "none">>} ]_vars
    /\ [](isr_pc = "isr_ack" => ENABLED IsrAck)
    /\ [](isr_pc = "isr_set" => ENABLED IsrSet)

\* the handler ran to its end while adc_get_reading was between two statements
C18_Witness ==
    /\ isr_pc = "none"
    /\ h_sets >= 2
    /\ fg_kind = "gr"
    /\ fg_pos = 3
    /\ h_unseen
    /\ adc_conversion_complete

(***************************************************************************)
(* Acquisition handoff: the flag between the handler and adc.c             *)
(***************************************************************************)
\* C19: adc_conversion_complete becomes true only by the handler's store (line 82)
\* and becomes false only by a foreground step of adc_get_reading or adc_start, made
\* while the handler is not running; the handler never clears the flag and no
\* foreground step sets it.
C19_SingleWriterSingleReader ==
    [][ adc_conversion_complete' # adc_conversion_complete =>
          IF adc_conversion_complete'
          THEN isr_pc = "isr_set" /\ isr_pc' = "none" /\ UNCHANGED fgCtl
          ELSE /\ isr_pc = "none" /\ isr_pc' = "none"
               /\ fg_op' \in {"adc_get_reading", "adc_start"} ]_vars

\* the flag was set by the handler, cleared by adc_get_reading, set again and cleared
\* by adc_start
C19_Witness ==
    /\ fg_op = "adc_start"
    /\ ~adc_conversion_complete
    /\ h_sets >= 2
    /\ h_oks >= 1

\* C20: adc_get_reading returns ADC_STATUS_NOT_READY only when the handler has not
\* set the flag since the last test that found it set (by a call that went on to
\* return ADC_STATUS_OK) or since adc_start discarded it: a completion signalled
\* while adc_get_reading executes is not lost. (Read in the states where the flag is
\* still clear after the return, i.e. before the handler signals anything newer.)
C20_NotReadyOnlyIfNothingNew ==
    (fg_op = "adc_get_reading" /\ fg_ret = "ADC_STATUS_NOT_READY" /\ ~adc_conversion_complete)
        => ~h_unseen

(***************************************************************************)
(* Main loop: backpressure at the single slot                              *)
(***************************************************************************)
\* the iteration under way has not called process_adc_sample yet
MlProcessAhead ==
    fg_kind = "ml" /\ \E i \in fg_pos..Len(MlSteps) : MlSteps[i] = "ml_process"

\* the step of line 82 that reads adc_buffer[0]
MlReadStep == fg_kind = "ml" /\ MlSteps[fg_pos] = "ml_read" /\ fg_pos' # fg_pos

\* C21: an iteration of the main loop that finds the flag set processes exactly one
\* sample, however many transfers (two or more included) completed since the poll
\* before; the sample is the value of the latest transfer when adc_buffer[0] is read;
\* the values written over are dropped with no error recorded, and neither a transfer
\* nor a statement of the loop ever waits for the other side.
C21_OneSamplePerPoll ==
    /\ [](/\ h_hits = sample_count + (IF MlProcessAhead THEN 1 ELSE 0)
          /\ (h_kPoll >= 2 /\ fg_kind = "ml" /\ ~MlProcessAhead) =>
                 /\ sample_count = h_hits
                 /\ uart_last.raw = ml_raw
          /\ error_count = 0 /\ ~critical_error_flag /\ error_history = ZeroHistory
          /\ h_transfers < MaxTransfers => ENABLED (\E v \in SampleValues : DmaTransfer(v))
          /\ (fg_kind = "ml" /\ isr_pc = "none") =>
                 ENABLED (MlClear \/ MlRead \/ MlProcess \/ MlLed))
    /\ [][MlReadStep => ml_raw' = h_last /\ ml_raw' = mem["adc_buffer"]]_vars

\* two or more transfers completed between two polls; one sample was processed, the
\* latest, and the count of processed samples is behind the count of transfers
C21_Witness ==
    /\ h_kPoll >= 2
    /\ fg_kind = "ml" /\ MlSteps[fg_pos] = "ml_led"
    /\ sample_count = h_hits
    /\ sample_count >= 2
    /\ uart_last.raw = h_last
    /\ h_transfers > sample_count
    /\ error_count = 0

(***************************************************************************)
(* Main loop: the handoff cycle                                            *)
(***************************************************************************)
\* C22: with the foreground loop and the handler each executing as long as they can,
\* whenever the ready flag is set the flag is eventually not set again, and the
\* foreground eventually processes a further sample (sample_count, which only ever
\* grows by one, changes its parity).
C22_ReadyLeadsToProcessed ==
    /\ adc_conversion_complete ~> ~adc_conversion_complete
    /\ \A parity \in {0, 1} :
           (adc_conversion_complete /\ sample_count % 2 = parity)
               ~> (sample_count % 2 # parity)

\* the cycle was gone through twice: the handler set the flag twice, two samples were
\* processed and the flag is back to not ready
C22_Witness ==
    /\ h_sets >= 2
    /\ sample_count >= 2
    /\ fg_op = "main_loop" /\ fg_ret = "processed"
    /\ ~adc_conversion_complete

(***************************************************************************)
(* Voltage conversion                                                      *)
(***************************************************************************)
\* the largest value of the int the product of line 105 is computed in
INT32_MAX == 2147483647

C24_MidScale ==
    (f_op = "convert" /\ f_in = 2048) =>
        /\ f_out.adc = [voltage_mv |-> 1650, voltage_whole |-> 1, voltage_decimal |-> 650]
        /\ f_out.main.voltage_mv = 1650
        /\ f_out.main.voltage_whole = 1
        /\ f_out.main.voltage_decimal = 650
        /\ f_out.main.text = <<"1", ".", "6", "5", "0">>

C24_Witness ==
    /\ f_op = "convert"
    /\ f_in = 2048
    /\ f_out.main.text = <<"1", ".", "6", "5", "0">>

\* C24 as stated: raw 2048 converts to 1649 mV and is printed "1.649"
C24_MidScaleIs1649 ==
    (f_op = "convert" /\ f_in = 2048) =>
        /\ f_out.adc.voltage_mv = 1649
        /\ f_out.main.voltage_whole = 1
        /\ f_out.main.voltage_decimal = 649
        /\ f_out.main.text = <<"1", ".", "6", "4", "9">>

(***************************************************************************)
(* Error tracker: the counter over a long run                              *)
(***************************************************************************)
\* C25: over successive error_report calls with no error_init or error_clear between
\* them error_get_count() is the number of the calls made: every report adds exactly
\* one and the count never decreases, however many reports are made.
C25_CountIsMonotonic == err_op = "report" => error_count = e_n

(***************************************************************************)
(* error_get_string                                                        *)
(***************************************************************************)
\* the codes error_get_string has a case for
NamedCodes ==
    {ERROR_NONE, ERROR_ADC_FAILED, ERROR_DMA_FAILED, ERROR_UART_FAILED, ERROR_TIMER_FAILED,
     ERROR_BUFFER_OVERFLOW, ERROR_BUFFER_UNDERFLOW, ERROR_INVALID_PARAM, ERROR_TIMEOUT}

\* C26: error_get_string returns a text for every code (never NULL, the empty text
\* standing for it here), a text of its own for each of the nine named codes, and
\* "Unknown error" for ERROR_UNKNOWN and every other value; the call leaves the
\* tracker as it was.
C26_StringLookupIsTotal ==
    /\ [](f_op = "error_get_string" =>
            /\ f_out = error_get_string(f_in)
            /\ f_out # ""
            /\ f_in \in NamedCodes =>
                   /\ f_out # "Unknown error"
                   /\ \A other \in NamedCodes \ {f_in} : error_get_string(other) # f_out
            /\ f_in \notin NamedCodes => f_out = "Unknown error"
            /\ f_in = ERROR_UNKNOWN => f_out = "Unknown error")
    /\ [][f_op' = "error_get_string" => UNCHANGED errVars]_vars

\* the lookup was made for ERROR_UNKNOWN
C26_Witness ==
    /\ f_op = "error_get_string"
    /\ f_in = ERROR_UNKNOWN
    /\ f_out = "Unknown error"

(***************************************************************************)
(* Trigger timer dividers                                                  *)
(***************************************************************************)
\* C27: SYSCLK_FREQ / ((TIM2_PRESCALER + 1) * (TIM2_PERIOD + 1)) is
\* ADC_SAMPLE_RATE_HZ, 16,000,000 / (1600 * 100) = 100, and the division leaves no
\* remainder.
C27_DividersGiveSampleRate ==
    f_op = "timer_rate" =>
        /\ f_in = <<1599, 99>>
        /\ f_out.rate = ADC_SAMPLE_RATE_HZ
        /\ f_out.rate = 100
        /\ f_out.remainder = 0
        /\ (f_in[1] + 1) * (f_in[2] + 1) * ADC_SAMPLE_RATE_HZ = SYSCLK_FREQ

C27_Witness ==
    /\ f_op = "timer_rate"
    /\ f_out = [rate |-> 100, remainder |-> 0]

(***************************************************************************)
(* Ring buffer: when a write discards                                      *)
(***************************************************************************)
\* C28: a ring_buffer_write into a buffer that holds fewer than size elements leaves
\* tail where it was and adds one to count(): while at most size values have been
\* written into an empty buffer, tail is still at the first of them and count() is the
\* number written.
C28_TailMovesOnlyWhenFull ==
    (rb_op = "write" /\ g_phase = "writing" /\ g_writes <= rb.size) =>
        /\ rb.tail = 0
        /\ ring_buffer_count = g_writes

(***************************************************************************)
(* Ring buffer: the full flag and the count                                *)
(***************************************************************************)
\* C29: ring_buffer_is_full() is true exactly when ring_buffer_count() is size.
C29_FullIffCountIsSize == ring_buffer_is_full <=> (ring_buffer_count = rb.size)

(***************************************************************************)
(* Ring buffer: index ranges                                               *)
(***************************************************************************)
\* the array indices of buffer.c for a buffer of size elements
Slots == 0..(rb.size - 1)

\* C30: after every completed call on a buffer initialised with size >= 1, head and
\* tail are in 0..size-1 and count is in 0..size, so buffer[head], buffer[tail] and
\* the buffer[(tail + offset) % size] of every peek that passes the offset test are
\* elements of the array.
C30_IndicesInRange ==
    /\ rb.size >= 1
    /\ rb.head \in Slots
    /\ rb.tail \in Slots
    /\ rb.count \in 0..rb.size
    /\ \A offset \in 0..(rb.count - 1) : PeekIndex(offset) \in Slots
    /\ DOMAIN storage = 0..(MaxSize - 1)
    /\ Slots \subseteq DOMAIN storage

\* head has wrapped round the array, tail is at its last element, and a write after a
\* read has just taken the count back to size
C30_Witness ==
    /\ rb_op = "write"
    /\ rb.size = MaxSize
    /\ g_writes > rb.size
    /\ g_phase = "mixed"
    /\ rb.count = rb.size
    /\ rb.head < rb.tail
    /\ rb.tail = rb.size - 1

(***************************************************************************)
(* Start-up order                                                          *)
(***************************************************************************)
\* what system_init does before it starts the timer
BeforeTimerStart ==
    {"uart_init", "gpio_init", "dma_init", "m0ar", "dma_enable", "adc_init", "timer_init",
     "enable_irq"}

C32_CriticalIffSevereReport ==
    /\ error_is_critical <=> e_critSeen
    /\ \A severity \in 0..UINT8_MAX :
           CriticalAfterReport(severity) = (IF severity >= 3 THEN TRUE ELSE e_critSeen)

\* reports of severity 0, 1 and 2 left the flag clear, then one of severity 255 set it
C32_Witness ==
    /\ err_op = "report"
    /\ e_n = 4
    /\ e_recent[1].severity = 0
    /\ e_recent[2].severity = 1
    /\ e_recent[3].severity = 2
    /\ e_recent[4].severity = UINT8_MAX
    /\ ~e_before.crit
    /\ error_is_critical

(***************************************************************************)
(* Error tracker: error_get_last with nothing reported                     *)
(***************************************************************************)
\* C33: while no error has been reported since the last error_init or error_clear
\* (or since reset), error_get_last() returns the all-zero record: code ERROR_NONE,
\* severity 0, NULL message, and so no record reported before the clear.
C33_LastIsZeroWhenNoneReported ==
    e_n = 0 =>
        /\ error_get_last = ZeroRecord
        /\ error_get_last.code = ERROR_NONE
        /\ error_get_last.severity = 0
        /\ error_get_last.message = NullMsg
        /\ LastIndex = MAX_ERROR_HISTORY - 1

\* a clear of a tracker whose last slot, the one error_get_last reads now, had been
\* reported into
C33_Witness ==
    /\ err_op = "clear"
    /\ e_n = 0
    /\ e_before.n >= MAX_ERROR_HISTORY
    /\ error_get_last = ZeroRecord

(***************************************************************************)
(* adc_get_reading: the failure paths                                      *)
(***************************************************************************)
\* a call of adc_get_reading that returns at line 45 or line 49
GrFailStep ==
    /\ isr_pc = "none" /\ isr_pc' = "none"
    /\ fg_kind = "idle" /\ fg_kind' = "idle"
    /\ h_transfers' = h_transfers
    /\ fg_op' = "adc_get_reading"
    /\ fg_ret' \in {"ADC_STATUS_ERROR", "ADC_STATUS_NOT_READY"}

\* C34: an adc_get_reading call that returns ADC_STATUS_ERROR (NULL argument) or
\* ADC_STATUS_NOT_READY leaves adc_conversion_complete, every field of the caller's
\* reading, the sample slots and adc_status as they were; it returns NOT_READY only
\* with the flag clear; and a step of adc_get_reading that clears the flag is the
\* last of a call that returns ADC_STATUS_OK.
C34_FailurePathsChangeNothing ==
    /\ [][GrFailStep =>
            /\ UNCHANGED <<adc_conversion_complete, reading, mem, adc_status, TCIF0>>
            /\ fg_ret' = "ADC_STATUS_NOT_READY" => ~adc_conversion_complete]_vars
    /\ [][(adc_conversion_complete /\ ~adc_conversion_complete'
              /\ fg_op' = "adc_get_reading")
            => (fg_kind = "gr" /\ fg_ret' = "ADC_STATUS_OK")]_vars

\* a call with a NULL argument has returned ADC_STATUS_ERROR while the flag was set,
\* after an earlier call had returned ADC_STATUS_OK; the flag is still set
C34_Witness ==
    /\ fg_op = "adc_get_reading"
    /\ fg_ret = "ADC_STATUS_ERROR"
    /\ adc_conversion_complete
    /\ h_oks >= 1
    /\ isr_pc = "none"
    /\ ~TCIF0

(***************************************************************************)
(* Ring buffer: ring_buffer_init                                           *)
(***************************************************************************)
\* C35: a ring_buffer_init call with a NULL rb, a NULL buffer or size 0 returns false
\* and leaves the fields, the array and the caller's variable as they were; every
\* other call returns true and leaves head = tail = count = 0, full = false and the
\* size it was given, a size of at least 1, whatever the buffer held before.
C35_InitRejectsOrEmpties ==
    /\ [](rb_op = "init" =>
            /\ rb_ret = TRUE
            /\ rb.size \in 1..MaxSize
            /\ rb = RbInitFields(rb.size)
            /\ rb.head = 0 /\ rb.tail = 0 /\ rb.count = 0 /\ ~rb.full
            /\ ring_buffer_is_empty)
    /\ [][rb_op' = "init_invalid" =>
            /\ rb_ret' = FALSE
            /\ UNCHANGED <<rb, storage, rb_out>>]_vars
    /\ [][(rb_op' = "init" /\ rb_ret') =>
            \E size \in 1..MaxSize : rb' = RbInitFields(size)]_vars

\* a smaller buffer was initialised over one that had been filled to its last slot
C35_Witness ==
    /\ rb_op = "init"
    /\ rb_ret
    /\ rb.size < MaxSize
    /\ rb = RbInitFields(rb.size)
    /\ storage[MaxSize - 1] # 0

(***************************************************************************)
(* Main loop: the sample index                                             *)
(***************************************************************************)
\* C36: the index process_adc_sample prints is the number of samples processed so
\* far: sample_count and the printed index only ever grow, together and by one, at a
\* call of process_adc_sample; the first line carries "00001"; this is so however
\* many completed transfers were never processed.
C36_IndexCountsProcessed ==
    /\ [](/\ uart_last.index = sample_count
          /\ sample_count \in 0..h_transfers
          /\ sample_count = 1 => FormatLu05(uart_last.index) = <<"0", "0", "0", "0", "1">>)
    /\ [][(sample_count' # sample_count \/ uart_last'.index # uart_last.index) =>
            /\ MlAt("ml_process")
            /\ sample_count' = sample_count + 1
            /\ uart_last'.index = uart_last.index + 1]_vars

\* the third line was printed with index 3 after at least five transfers had completed
C36_Witness ==
    /\ fg_kind = "ml" /\ MlSteps[fg_pos] = "ml_led"
    /\ sample_count = 3
    /\ uart_last.index = 3
    /\ FormatLu05(uart_last.index) = <<"0", "0", "0", "0", "3">>
    /\ h_transfers >= 5

(***************************************************************************)
(* Main loop: the status LED                                               *)
(***************************************************************************)
\* the processed samples whose lines 85-89 have been executed
LedCounted ==
    sample_count - (IF fg_kind = "ml" /\ ~MlProcessAhead THEN 1 ELSE 0)

=============================================================================
